---- MODULE Spec2Model ----
(***************************************************************************)
(* A model of the vkclient crate: the content-negotiated decode pipeline   *)
(* (src/src/inner.rs, src/src/vkapi.rs) and the long-poll subscription     *)
(* stream (src/src/longpoll.rs).                                           *)
(*                                                                         *)
(* Two specifications share the module.  Spec is one subscribe() session:  *)
(* the generator of async_stream::stream!, its consumer and the long-poll  *)
(* server.  PipelineSpec applies the pure operations (a plain API call on  *)
(* one response, the ts deserializers) to inputs drawn from bounded sets.  *)
(***************************************************************************)
EXTENDS Integers, Sequences, FiniteSets, TLC

VARIABLES
    build,      \* the cargo features compiled into the crate
    request,    \* subscribe(): the captured `mut request: LongPollRequest<T>`
    supplied,   \* the LongPollRequest the caller passed to subscribe()
    pc,         \* where the stream's generator is suspended
    updates,    \* the rest of `for update in updates` of the current tick
    consumer,   \* "idle" | "pulling" (a next() is pending) | "gone" (dropped)
    items,      \* every item poll_next has returned to the consumer, in order
    ended,      \* poll_next has returned None (end of stream)
    polls,      \* every GET handed to the transport, in order
    ticks,      \* every result of subscribe_once_with_client, in order
    trips,      \* polls handed to the transport during the current pull
    peer,       \* a second subscribe() stream of the same client: its `request`
    call        \* PipelineSpec: the last pure operation and its result

vars == <<build, request, supplied, pc, updates, consumer, items, ended,
          polls, ticks, trips, peer, call>>

sessionVars == <<request, supplied, pc, updates, consumer, items, ended,
                 polls, ticks, trips, peer>>

(***************************************************************************)
(* Bounds of the model.                                                    *)
(***************************************************************************)
\* polls one session may hand to the transport
MaxPolls == 3
\* the largest integer a wire `ts` carries
MaxTs == 12

(***************************************************************************)
(* Option and Result.                                                      *)
(***************************************************************************)
None == [tag |-> "None"]
Some(v) == [tag |-> "Some", val |-> v]
Ok(v) == [ok |-> TRUE, val |-> v]
Err(e) == [ok |-> FALSE, err |-> e]

Last(s) == s[Len(s)]

(***************************************************************************)
(* Build configuration: the cargo features of the crate.                   *)
(***************************************************************************)
Features == {"compression_zstd", "compression_gzip", "encode_json", "encode_msgpack"}
Builds == SUBSET Features

(***************************************************************************)
(* VkApiError (vkapi.rs) and ResponseDeserialize.                          *)
(***************************************************************************)
ErrRequest == [kind |-> "Request"]
ErrRequestSerialize == [kind |-> "RequestSerialize"]
ErrIO == [kind |-> "IO"]
ErrResponseDeserialize(sub) == [kind |-> "ResponseDeserialize", sub |-> sub]
ErrVk(e) == [kind |-> "Vk", error |-> e]
ErrLongPoll(e) == [kind |-> "LongPoll", error |-> e]
BadEncoding == ErrResponseDeserialize("BadEncoding")

(***************************************************************************)
(* Header values.  A HeaderValue is a byte string; to_str() succeeds only  *)
(* when every byte is visible ASCII.                                       *)
(***************************************************************************)
Hv(s) == [bytes |-> s, ascii |-> TRUE]
HvOpaque(s) == [bytes |-> s, ascii |-> FALSE]

\* HeaderValue::to_str().ok()
to_str(h) == IF h.ascii THEN Some(h.bytes) ELSE None

\* impl PartialEq<str> for HeaderValue: byte-wise equality
HvEq(h, s) == h.ascii /\ h.bytes = s

\* str::starts_with
starts_with(s, p) == Len(s) >= Len(p) /\ SubSeq(s, 1, Len(p)) = p

(***************************************************************************)
(* Wire values: what a JSON or MessagePack document holds.                 *)
(***************************************************************************)
VNull == [t |-> "null"]
VInt(n) == [t |-> "int", n |-> n]
VStr(s) == [t |-> "str", s |-> s]
VSeq(q) == [t |-> "seq", q |-> q]
VMap(m) == [t |-> "map", m |-> m]

Has(v, k) == v.t = "map" /\ k \in DOMAIN v.m

\* A response body: document `doc` serialized as `fmt`, then compressed as
\* `comp` ("none": not compressed).
Bytes(comp, fmt, doc) == [comp |-> comp, fmt |-> fmt, doc |-> doc]

(***************************************************************************)
(* inner.rs: uncompress and the CompressReader it returns.                 *)
(***************************************************************************)
CompressReader(kind, body) == [kind |-> kind, body |-> body]

\* The mutant of uncompress: an encoding that names no compiled codec is
\* refused instead of passed through.
uncompress_strict(b, encode, body) ==
    IF "compression_zstd" \in b /\ encode.tag = "Some" /\ HvEq(encode.val, "zstd")
    THEN Ok(CompressReader("Zstd", body))
    ELSE IF "compression_gzip" \in b /\ encode.tag = "Some" /\ HvEq(encode.val, "gzip")
    THEN Ok(CompressReader("Gzip", body))
    ELSE IF encode.tag = "None" \/ HvEq(encode.val, "identity")
    THEN Ok(CompressReader("Skip", body))
    ELSE Err(BadEncoding)

uncompress(b, encode, body) ==
    IF "compression_zstd" \in b /\ encode.tag = "Some" /\ HvEq(encode.val, "zstd")
    THEN Ok(CompressReader("Zstd", body))
    ELSE IF "compression_gzip" \in b /\ encode.tag = "Some" /\ HvEq(encode.val, "gzip")
    THEN Ok(CompressReader("Gzip", body))
    ELSE Ok(CompressReader("Skip", body))

\* impl Read for CompressReader: the bytes the reader delivers, or an I/O
\* error when the codec's decoder cannot parse the stream.
Read(reader) ==
    CASE reader.kind = "Skip" -> Ok(reader.body)
      [] reader.kind = "Gzip" ->
            IF reader.body.comp = "gzip"
            THEN Ok(Bytes("none", reader.body.fmt, reader.body.doc))
            ELSE Err("io")
      [] reader.kind = "Zstd" ->
            IF reader.body.comp = "zstd"
            THEN Ok(Bytes("none", reader.body.fmt, reader.body.doc))
            ELSE Err("io")

(***************************************************************************)
(* serde: what the derived Deserialize impls accept.  A target type is a   *)
(* string naming the Rust type.                                            *)
(***************************************************************************)
I16Min == -32768
I16Max == 32767

\* u64::to_string: decimal digits, most significant first, no leading zero
RECURSIVE u64_to_string(_)
u64_to_string(n) ==
    IF n < 10
    THEN SubSeq("0123456789", n + 1, n + 1)
    ELSE u64_to_string(n \div 10) \o SubSeq("0123456789", (n % 10) + 1, (n % 10) + 1)

\* Deserialize for the caller's response type T and the update type I
De(T, v) ==
    CASE T = "u64" ->
            IF v.t = "int" /\ v.n >= 0 THEN Ok(v.n) ELSE Err("invalid type")
      [] T = "Option<u64>" ->
            IF v.t = "null" THEN Ok(None)
            ELSE IF v.t = "int" /\ v.n >= 0 THEN Ok(Some(v.n))
            ELSE Err("invalid type")
      [] T = "usize" ->
            IF v.t = "int" /\ v.n >= 0 THEN Ok(v.n) ELSE Err("invalid type")
      [] T = "Option<usize>" ->
            IF v.t = "null" THEN Ok(None)
            ELSE IF v.t = "int" /\ v.n >= 0 THEN Ok(Some(v.n))
            ELSE Err("invalid type")
      [] T = "i16" ->
            IF v.t = "int" /\ v.n >= I16Min /\ v.n <= I16Max
            THEN Ok(v.n) ELSE Err("invalid type")
      [] T = "String" ->
            IF v.t = "str" THEN Ok(v.s) ELSE Err("invalid type")

\* serde::__private::de::missing_field: only an Option accepts absence
missing_field(T) ==
    IF T \in {"Option<u64>", "Option<usize>"} THEN Ok(None) ELSE Err("missing field")

\* A field of a derived struct visitor (unknown fields are ignored)
Field(T, v, k) == IF k \in DOMAIN v.m THEN De(T, v.m[k]) ELSE missing_field(T)

(***************************************************************************)
(* longpoll.rs: the ts deserializers.                                      *)
(***************************************************************************)
\* The mutant of visit_u64: the digits come out least significant first.
RECURSIVE visit_u64_reversed(_)
visit_u64_reversed(n) ==
    IF n < 10
    THEN SubSeq("0123456789", n + 1, n + 1)
    ELSE SubSeq("0123456789", (n % 10) + 1, (n % 10) + 1) \o visit_u64_reversed(n \div 10)

\* DeserializeUsizeOrString::visit_u64
visit_u64(n) == u64_to_string(n)

\* DeserializeUsizeOrString::visit_str / visit_string
visit_str(s) == s

\* deserializer.deserialize_any(DeserializeUsizeOrString): every other
\* wire type reaches a default visit_* and is an invalid type.
deserialize_usize_or_string(v) ==
    CASE v.t = "int" /\ v.n >= 0 -> Ok(visit_u64(v.n))
      [] v.t = "str" -> Ok(visit_str(v.s))
      [] OTHER -> Err("invalid type")

\* deserializer.deserialize_any(DeserializeUsizeOrStringOption); JSON null
\* reaches visit_unit, which the visitor does not implement.
deserialize_usize_or_string_option(v) ==
    CASE v.t = "int" /\ v.n >= 0 -> Ok(Some(visit_u64(v.n)))
      [] v.t = "str" -> Ok(Some(visit_str(v.s)))
      [] OTHER -> Err("invalid type")

\* tests::Ts { #[serde(deserialize_with = "deserialize_usize_or_string")] ts }
De_Ts(doc) ==
    IF doc.t # "map" THEN Err("invalid type")
    ELSE IF "ts" \in DOMAIN doc.m THEN deserialize_usize_or_string(doc.m.ts)
    ELSE Err("missing field")

\* tests::TsOpt { #[serde(default)] #[serde(deserialize_with = ...)] ts }
De_TsOpt(doc) ==
    IF doc.t # "map" THEN Err("invalid type")
    ELSE IF "ts" \in DOMAIN doc.m THEN deserialize_usize_or_string_option(doc.m.ts)
    ELSE Ok(None)

(***************************************************************************)
(* vkapi.rs: the untagged Response<T> envelope and VkError.                *)
(***************************************************************************)
\* #[derive(Deserialize)] struct VkError { error_code: i16, error_msg: String }
De_VkError(v) ==
    IF v.t # "map" THEN Err("invalid type")
    ELSE LET code == Field("i16", v, "error_code")
             msg == Field("String", v, "error_msg")
         IN  IF code.ok /\ msg.ok
             THEN Ok([error_code |-> code.val, error_msg |-> msg.val])
             ELSE Err("invalid VkError")

\* #[serde(untagged)] enum Response<T> { Success { response: T }, Error { error: VkError } }
\* The variants are tried in declaration order on the buffered content.
De_Response(T, doc) ==
    LET success == IF doc.t = "map" THEN Field(T, doc, "response") ELSE Err("invalid type")
        error == IF Has(doc, "error") THEN De_VkError(doc.m.error) ELSE Err("missing field")
    IN  IF success.ok THEN Ok([variant |-> "Success", response |-> success.val])
        ELSE IF error.ok THEN Ok([variant |-> "Error", error |-> error.val])
        ELSE Err("data did not match any variant")

(***************************************************************************)
(* longpoll.rs: the untagged LongPollResponse<R> and its two shapes.       *)
(***************************************************************************)
\* Vec<R> with R = String: every element has to decode
De_Vec(v) ==
    IF v.t = "seq" /\ \A i \in 1..Len(v.q) : De("String", v.q[i]).ok
    THEN Ok([i \in 1..Len(v.q) |-> De("String", v.q[i]).val])
    ELSE Err("invalid type")

\* struct LongPollSuccess<R> { ts: String, updates: Vec<R> }
De_LongPollSuccess(doc) ==
    IF doc.t # "map" THEN Err("invalid type")
    ELSE LET ts == Field("String", doc, "ts")
             upd == IF "updates" \in DOMAIN doc.m THEN De_Vec(doc.m.updates)
                    ELSE Err("missing field")
         IN  IF ts.ok /\ upd.ok
             THEN Ok([ts |-> ts.val, updates |-> upd.val])
             ELSE Err("invalid LongPollSuccess")

\* struct LongPollError { failed: usize, ts: Option<String> (default,
\* deserialize_usize_or_string_option), min_version, max_version }
De_LongPollError(doc) ==
    IF doc.t # "map" THEN Err("invalid type")
    ELSE LET failed == Field("usize", doc, "failed")
             ts == IF "ts" \in DOMAIN doc.m
                   THEN deserialize_usize_or_string_option(doc.m.ts)
                   ELSE Ok(None)
             min == Field("Option<usize>", doc, "min_version")
             max == Field("Option<usize>", doc, "max_version")
         IN  IF failed.ok /\ ts.ok /\ min.ok /\ max.ok
             THEN Ok([failed |-> failed.val, ts |-> ts.val,
                      min_version |-> min.val, max_version |-> max.val])
             ELSE Err("invalid LongPollError")

\* #[serde(untagged)] enum LongPollResponse<R> { Success(..), Error(..) }
De_LongPollResponse(doc) ==
    LET success == De_LongPollSuccess(doc)
        error == De_LongPollError(doc)
    IN  IF success.ok THEN Ok([variant |-> "Success", success |-> success.val])
        ELSE IF error.ok THEN Ok([variant |-> "Error", error |-> error.val])
        ELSE Err("data did not match any variant")

\* T::deserialize for the targets decode is called with
Deserialize(T, doc) ==
    CASE T = "LongPollResponse<String>" -> De_LongPollResponse(doc)
      [] T = "Response<u64>" -> De_Response("u64", doc)
      [] T = "Response<Option<u64>>" -> De_Response("Option<u64>", doc)

(***************************************************************************)
(* inner.rs: decode.                                                       *)
(***************************************************************************)
\* serde_json::from_reader / rmp_serde::decode::from_read over the reader.
\* Bytes that are still compressed, or that are the other format's, are no
\* document of a struct target; a reader error ends the parse.
from_reader(fmt, reader, T) ==
    LET r == Read(reader)
    IN  IF ~r.ok THEN Err("io")
        ELSE IF r.val.comp # "none" \/ r.val.fmt # fmt THEN Err("syntax")
        ELSE Deserialize(T, r.val.doc)

\* The mutant of decode_arm: a Content-Type that names no parser falls
\* through to the JSON parser.
decode_arm_default_json(b, format) ==
    LET v == IF format.tag = "Some" THEN to_str(format.val) ELSE None
    IN  IF "encode_msgpack" \in b /\ v.tag = "Some" /\ starts_with(v.val, "application/x-msgpack")
        THEN "MsgPack"
        ELSE IF "encode_json" \in b THEN "Json"
        ELSE "BadEncoding"

\* The match arm decode takes for a Content-Type header
decode_arm(b, format) ==
    LET v == IF format.tag = "Some" THEN to_str(format.val) ELSE None
    IN  IF "encode_json" \in b /\ v.tag = "Some" /\ starts_with(v.val, "application/json")
        THEN "Json"
        ELSE IF "encode_msgpack" \in b /\ v.tag = "Some"
                /\ starts_with(v.val, "application/x-msgpack")
        THEN "MsgPack"
        ELSE "BadEncoding"

decode(b, format, reader, T) ==
    LET arm == decode_arm(b, format)
    IN  IF arm = "BadEncoding" THEN Err(BadEncoding)
        ELSE LET parsed == from_reader(IF arm = "Json" THEN "json" ELSE "msgpack", reader, T)
             IN  IF parsed.ok THEN parsed ELSE Err(ErrResponseDeserialize(arm))

(***************************************************************************)
(* A response as the transport hands it over.                              *)
(***************************************************************************)
\* transport: "ok", or the request / the body read failed
Response(transport, content_encoding, content_type, body) ==
    [transport |-> transport, content_encoding |-> content_encoding,
     content_type |-> content_type, body |-> body]

(***************************************************************************)
(* vkapi.rs: VkApi::send_request_with_version.                             *)
(***************************************************************************)
\* enum Compression / enum Encoding: a variant exists when its feature does
Compressions(b) ==
    {"None"} \cup (IF "compression_zstd" \in b THEN {"Zstd"} ELSE {})
             \cup (IF "compression_gzip" \in b THEN {"Gzip"} ELSE {})
Encodings(b) ==
    {"None"} \cup (IF "encode_msgpack" \in b THEN {"Msgpack"} ELSE {})
             \cup (IF "encode_json" \in b THEN {"Json"} ELSE {})

\* struct VkApiInner
VkApiInner(encoding, format, access_token, version, domain) ==
    [encoding |-> encoding, format |-> format, access_token |-> access_token,
     version |-> version, domain |-> domain]

\* The mutant of api_request: the .msgpack suffix follows what the build
\* can decode, not the configured format.
api_request_suffix_by_build(b, inner, method, body, version) ==
    [url |-> IF "encode_msgpack" \in b
             THEN "https://" \o inner.domain \o "/method/" \o method \o ".msgpack"
             ELSE "https://" \o inner.domain \o "/method/" \o method,
     accept_encoding |-> CASE inner.encoding = "Zstd" -> "zstd"
                           [] inner.encoding = "Gzip" -> "gzip"
                           [] inner.encoding = "None" -> "identity",
     accept |-> CASE inner.format = "Msgpack" -> "application/x-msgpack"
                  [] inner.format = "Json" -> "application/json"
                  [] inner.format = "None" -> "text/*",
     content_type |-> "application/x-www-form-urlencoded",
     form |-> [v |-> version, access_token |-> inner.access_token, body |-> body]]

\* The request send_request_with_version builds (lines 97-141)
api_request(b, inner, method, body, version) ==
    [url |-> IF "encode_msgpack" \in b /\ inner.format = "Msgpack"
             THEN "https://" \o inner.domain \o "/method/" \o method \o ".msgpack"
             ELSE "https://" \o inner.domain \o "/method/" \o method,
     accept_encoding |-> CASE inner.encoding = "Zstd" -> "zstd"
                           [] inner.encoding = "Gzip" -> "gzip"
                           [] inner.encoding = "None" -> "identity",
     accept |-> CASE inner.format = "Msgpack" -> "application/x-msgpack"
                  [] inner.format = "Json" -> "application/json"
                  [] inner.format = "None" -> "text/*",
     content_type |-> "application/x-www-form-urlencoded",
     form |-> [v |-> version, access_token |-> inner.access_token, body |-> body]]

\* RequestBuilder::form: serde_urlencoded flattens `body` into the form; a
\* value it cannot flatten leaves the builder holding the error.
form_ok(body) == body # "nested"

\* The mutant of api_response: the client's configured profile, not the
\* response's headers, selects the decompressor and the parser.
api_response_by_profile(b, inner, T, response) ==
    IF response.transport # "ok" THEN Err(ErrRequest)
    ELSE LET ce == CASE inner.encoding = "Zstd" -> Some(Hv("zstd"))
                     [] inner.encoding = "Gzip" -> Some(Hv("gzip"))
                     [] inner.encoding = "None" -> None
             ct == CASE inner.format = "Msgpack" -> Some(Hv("application/x-msgpack"))
                     [] inner.format = "Json" -> Some(Hv("application/json"))
                     [] inner.format = "None" -> None
             reader == uncompress(b, ce, response.body)
         IN  IF ~reader.ok THEN reader
             ELSE LET resp == decode(b, ct, reader.val, "Response<" \o T \o ">")
                  IN  IF ~resp.ok THEN resp
                      ELSE IF resp.val.variant = "Success" THEN Ok(resp.val.response)
                      ELSE Err(ErrVk(resp.val.error))

\* Lines 143-157: the response is read, decompressed, decoded and resolved
api_response(b, inner, T, response) ==
    IF response.transport # "ok" THEN Err(ErrRequest)
    ELSE LET reader == uncompress(b, response.content_encoding, response.body)
         IN  IF ~reader.ok THEN reader
             ELSE LET resp == decode(b, response.content_type, reader.val, "Response<" \o T \o ">")
                  IN  IF ~resp.ok THEN resp
                      ELSE IF resp.val.variant = "Success" THEN Ok(resp.val.response)
                      ELSE Err(ErrVk(resp.val.error))

\* The whole call: what went to the transport, and the caller's result
send_request_with_version(b, inner, method, body, version, T, response) ==
    IF ~form_ok(body)
    THEN [sent |-> None, result |-> Err(ErrRequest)]
    ELSE [sent |-> Some(api_request(b, inner, method, body, version)),
          result |-> api_response(b, inner, T, response)]

(***************************************************************************)
(* longpoll.rs: VkLongPoll::subscribe_once_with_client.                    *)
(***************************************************************************)
\* struct LongPollRequest<T>
LongPollRequest(server, key, ts, wait, additional_params) ==
    [server |-> server, key |-> key, ts |-> ts, wait |-> wait,
     additional_params |-> additional_params]

\* serde_urlencoded::to_string(LongPollQueryParams): the flattened pairs,
\* or an error when additional_params does not flatten.
query_params(req) ==
    IF req.additional_params = "nested" THEN Err(ErrRequestSerialize)
    ELSE Ok("key=" \o req.key \o "&ts=" \o req.ts \o "&wait=" \o u64_to_string(req.wait)
            \o (IF req.additional_params = "unit" THEN "" ELSE "&" \o req.additional_params))

\* cfg(features = "..."): cargo sets `feature`, never `features`, so the
\* predicate is false in every build.
cfg_features(b, name) == FALSE

ErrHttp == [kind |-> "Http"]

\* http::Uri accepts an absolute URI; a scheme-less string with a path is
\* neither an authority nor a path.
uri_ok(url) == starts_with(url, "http://") \/ starts_with(url, "https://")

\* Lines 111-144: the GET the tick hands to the transport
lp_request(b, req) ==
    LET params == query_params(req)
    IN  IF ~params.ok THEN params
        ELSE LET url == IF starts_with(req.server, "http")
                        THEN req.server \o "?act=a_check&" \o params.val
                        ELSE "https://" \o req.server \o "?act=a_check&" \o params.val
             IN  IF ~uri_ok(url) THEN Err(ErrHttp)
                 ELSE Ok([method |-> "GET", uri |-> url,
                          query |-> [key |-> req.key, ts |-> req.ts, wait |-> req.wait,
                                     additional_params |-> req.additional_params],
                          accept_encoding |-> IF cfg_features(b, "compression_gzip")
                                              THEN "gzip" ELSE "identity",
                          accept |-> IF cfg_features(b, "encode_json")
                                     THEN "application/json" ELSE "text/*"])

\* Lines 146-162: the response is read, decompressed, decoded and resolved
lp_response(b, response) ==
    IF response.transport # "ok" THEN Err(ErrRequest)
    ELSE LET reader == uncompress(b, response.content_encoding, response.body)
         IN  IF ~reader.ok THEN reader
             ELSE LET resp == decode(b, response.content_type, reader.val,
                                     "LongPollResponse<String>")
                  IN  IF ~resp.ok THEN resp
                      ELSE IF resp.val.variant = "Success" THEN Ok(resp.val.success)
                      ELSE Err(ErrLongPoll(resp.val.error))

\* The whole tick
subscribe_once_with_client(b, req, response) ==
    LET r == lp_request(b, req)
    IN  IF ~r.ok THEN r ELSE lp_response(b, response)

(***************************************************************************)
(* longpoll.rs: the arms of the match in subscribe().                      *)
(***************************************************************************)
\* The mutant of IsRecoverable: the first arm never matches, so a long-poll
\* error with a replacement ts falls to the Err(e) arm.
IsRecoverableNever(o) == FALSE

\* Err(VkApiError::LongPoll(LongPollError { ts: Some(ts), .. }))
IsRecoverable(o) == ~o.ok /\ o.err.kind = "LongPoll" /\ o.err.error.ts.tag = "Some"
\* Ok(LongPollSuccess { ts, updates })
IsUpdates(o) == o.ok
\* Err(e)
IsFatal(o) == ~o.ok /\ ~IsRecoverable(o)

\* The ts an outcome hands to `request.ts`
OutcomeTs(o) == IF o.ok THEN o.val.ts ELSE o.err.error.ts.val

(***************************************************************************)
(* The inputs of a session: the caller's request and the server's answers. *)
(***************************************************************************)
Servers == {"lp.vk.com/wh1", "https://lp.vk.com/wh1", "httpbin.org/lp"}
AdditionalParams == {"unit", "mode=2", "nested"}
Requests ==
    {LongPollRequest(s, "k", "4", 25, a) : s \in Servers, a \in AdditionalParams}

UpdateLists == {<<>>, <<"u1">>, <<"u2", "u1">>}
WireUpdates(l) == VSeq([i \in 1..Len(l) |-> VStr(l[i])])

\* The documents a long-poll server answers with
LongPollDocs ==
    {VMap([ts |-> VStr(t), updates |-> WireUpdates(l)]) : t \in {"5", "6"}, l \in UpdateLists}
    \cup {VMap([ts |-> VInt(6), updates |-> WireUpdates(<<"u1">>)])}
    \cup {VMap([failed |-> VInt(1), ts |-> VInt(6)]),
          VMap([failed |-> VInt(1), ts |-> VStr("5")])}
    \cup {VMap([failed |-> VInt(2)]),
          VMap([failed |-> VInt(4), min_version |-> VInt(1), max_version |-> VInt(3)])}
    \cup {VMap([ts |-> VStr("5"), updates |-> WireUpdates(<<"u1">>), failed |-> VInt(1)])}
    \cup {VMap(<<>>)}

LongPollResponses ==
    {Response("failed", None, None, Bytes("none", "json", VNull))} \cup
    {Response("ok", ce, ct, Bytes(comp, fmt, doc)) :
        ce \in {None, Some(Hv("gzip"))},
        ct \in {Some(Hv("application/json")), Some(Hv("application/x-msgpack")),
                Some(Hv("text/html"))},
        comp \in {"none", "gzip"},
        fmt \in {"json", "msgpack"},
        doc \in LongPollDocs}

(***************************************************************************)
(* longpoll.rs: VkLongPoll::subscribe.  The stream runs only inside the    *)
(* consumer's poll_next; one action is one poll_next call, from the point  *)
(* where the generator is suspended to its next suspension.                *)
(*   pc = "Start"      not polled yet                                      *)
(*   pc = "Polling"    awaiting subscribe_once_with_client (line 65)       *)
(*   pc = "Yielded"    suspended at `yield Ok(update)` (line 72)           *)
(*   pc = "YieldedErr" suspended at `yield Err(e)` (line 76)               *)
(*   pc = "Done"       the generator has returned                          *)
(***************************************************************************)
\* The mutant of Awaited: the generator runs detached from its consumer.
AwaitedDetached == consumer \in {"pulling", "gone"}

\* The generator advances only while the consumer's poll_next awaits it
Awaited == consumer = "pulling"

\* The mutant of NextUpdate: the for loop takes the updates from the back.
NextUpdateLast(l) == l[Len(l)]

\* Line 72: the update the for loop yields next
NextUpdate(l) == Head(l)

\* The mutant of AssignTs: the returned ts is dropped.
AssignTsStale(req, ts) == req

\* Line 67 / line 70: the value assigned to request.ts
AssignTs(req, ts) == [req EXCEPT !.ts = ts]

\* Line 76: the item yielded for an error
ErrItem(e) == Err(e)

\* The mutant of LoopTop: after an item-less outcome the generator waits
\* without issuing the next poll, and nothing wakes the pull.
LoopTopParked(req, tks, n) ==
    LET r == lp_request(build, req)
    IN  IF n >= 1
        THEN /\ polls' = polls
             /\ ticks' = tks
             /\ items' = items
             /\ pc' = "Start"
             /\ consumer' = "pulling"
             /\ trips' = n
        ELSE IF r.ok
        THEN /\ Len(polls) < MaxPolls
             /\ polls' = Append(polls, r.val)
             /\ ticks' = tks
             /\ items' = items
             /\ pc' = "Polling"
             /\ consumer' = "pulling"
             /\ trips' = n + 1
        ELSE /\ polls' = polls
             /\ ticks' = Append(tks, r)
             /\ items' = Append(items, ErrItem(r.err))
             /\ pc' = "YieldedErr"
             /\ consumer' = "idle"
             /\ trips' = n

\* The mutant of LoopTop: a pull that has made its round trip does not
\* poll again; the stream ends instead.
LoopTopOnce(req, tks, n) ==
    LET r == lp_request(build, req)
    IN  IF n >= 1
        THEN /\ polls' = polls
             /\ ticks' = tks
             /\ items' = items
             /\ pc' = "Done"
             /\ consumer' = "idle"
             /\ trips' = n
        ELSE IF r.ok
        THEN /\ Len(polls) < MaxPolls
             /\ polls' = Append(polls, r.val)
             /\ ticks' = tks
             /\ items' = items
             /\ pc' = "Polling"
             /\ consumer' = "pulling"
             /\ trips' = n + 1
        ELSE /\ polls' = polls
             /\ ticks' = Append(tks, r)
             /\ items' = Append(items, ErrItem(r.err))
             /\ pc' = "YieldedErr"
             /\ consumer' = "idle"
             /\ trips' = n

\* Lines 64-65: the top of the loop with `request` = req, after the ticks
\* tks, having yielded its, n polls into the current pull.
LoopTop(req, tks, n) ==
    LET r == lp_request(build, req)
    IN  IF r.ok
        THEN /\ Len(polls) < MaxPolls
             /\ polls' = Append(polls, r.val)
             /\ ticks' = tks
             /\ items' = items
             /\ pc' = "Polling"
             /\ consumer' = "pulling"
             /\ trips' = n + 1
        ELSE /\ polls' = polls
             /\ ticks' = Append(tks, r)
             /\ items' = Append(items, ErrItem(r.err))
             /\ pc' = "YieldedErr"
             /\ consumer' = "idle"
             /\ trips' = n

\* The mutant of PullPoll: the next poll is issued as soon as the consumer
\* pulls again, with updates of the last poll still to hand over.
PullPollEarly ==
    /\ consumer = "idle"
    /\ pc = "Start" \/ pc = "Yielded"
    /\ LoopTop(request, ticks, 0)
    /\ updates' = <<>>
    /\ UNCHANGED <<build, peer, request, supplied, ended, call>>

\* next() on a stream whose generator is at the top of its loop
PullPoll ==
    /\ consumer = "idle"
    /\ pc = "Start" \/ (pc = "Yielded" /\ updates = <<>>)
    /\ LoopTop(request, ticks, 0)
    /\ updates' = <<>>
    /\ UNCHANGED <<build, peer, request, supplied, ended, call>>

\* next() on a stream suspended inside the for loop with updates left
PullYield ==
    /\ consumer = "idle"
    /\ pc = "Yielded"
    /\ updates # <<>>
    /\ items' = Append(items, Ok(NextUpdate(updates)))
    /\ updates' = Tail(updates)
    /\ trips' = 0
    /\ UNCHANGED <<build, peer, request, supplied, pc, consumer, ended, polls, ticks, call>>

\* The mutant of PullEnd: after the error the loop is entered again.
PullEndRetry ==
    /\ consumer = "idle"
    /\ pc = "YieldedErr"
    /\ pc' = "Start"
    /\ trips' = 0
    /\ UNCHANGED <<build, peer, request, supplied, updates, consumer, items, ended, polls, ticks,
                   call>>

\* next() on a stream suspended at `yield Err(e)`: break, end of stream
PullEnd ==
    /\ consumer = "idle"
    /\ pc = "YieldedErr"
    /\ pc' = "Done"
    /\ ended' = TRUE
    /\ trips' = 0
    /\ UNCHANGED <<build, peer, request, supplied, updates, consumer, items, polls, ticks, call>>

\* The transport completes the poll in flight and the waiting poll_next
\* resumes the generator with the tick's result.
Respond(response) ==
    /\ pc = "Polling"
    /\ Awaited
    /\ \E o \in {lp_response(build, response)} :
           IF IsRecoverable(o)
           THEN /\ request' = AssignTs(request, OutcomeTs(o))
                /\ updates' = <<>>
                /\ LoopTop(request', Append(ticks, o), trips)
           ELSE IF IsUpdates(o)
           THEN /\ request' = AssignTs(request, OutcomeTs(o))
                /\ IF o.val.updates # <<>>
                   THEN /\ items' = Append(items, Ok(NextUpdate(o.val.updates)))
                        /\ updates' = Tail(o.val.updates)
                        /\ ticks' = Append(ticks, o)
                        /\ pc' = "Yielded"
                        /\ consumer' = "idle"
                        /\ UNCHANGED <<polls, trips>>
                   ELSE /\ updates' = <<>>
                        /\ LoopTop(request', Append(ticks, o), trips)
           ELSE /\ items' = Append(items, ErrItem(o.err))
                /\ ticks' = Append(ticks, o)
                /\ pc' = "YieldedErr"
                /\ consumer' = "idle"
                /\ UNCHANGED <<request, updates, polls, trips>>
    /\ UNCHANGED <<build, peer, supplied, ended, call>>

\* The consumer drops the stream: the generator and any poll in flight
\* are dropped with it.
Drop ==
    /\ consumer \in {"idle", "pulling"}
    /\ consumer' = "gone"
    /\ UNCHANGED <<build, peer, request, supplied, pc, updates, items, ended, polls, ticks,
                   trips, call>>

\* The second stream: subscribe() called on the same VkLongPoll with its own
\* request; `done` once its generator has yielded an error.
PeerStart ==
    [request |-> LongPollRequest("https://lp.vk.com/wh2", "k2", "9", 25, "unit"),
     done |-> FALSE]

NoCall == [op |-> "none"]

\* The builds a session is checked in: no codec, JSON alone, JSON with
\* gzip, and every feature.
SessionBuilds ==
    {{}, {"encode_json"}, {"encode_json", "compression_gzip"}, Features}

Init ==
    /\ build \in SessionBuilds
    /\ supplied \in Requests
    /\ request = supplied
    /\ pc = "Start"
    /\ updates = <<>>
    /\ consumer = "idle"
    /\ items = <<>>
    /\ ended = FALSE
    /\ polls = <<>>
    /\ ticks = <<>>
    /\ trips = 0
    /\ peer = PeerStart
    /\ call = NoCall

Next ==
    \/ PullPoll
    \/ PullYield
    \/ PullEnd
    \/ \E response \in LongPollResponses : Respond(response)
    \/ Drop

Spec == Init /\ [][Next]_vars

\* An outcome on which the pull returns: anything but a long-poll error
\* with a replacement ts or Updates with no update
YieldsItem(o) == ~IsRecoverable(o) /\ ~(IsUpdates(o) /\ o.val.updates = <<>>)

\* The transport answers the poll in flight with an outcome of that kind
AnswerWithItem ==
    /\ pc = "Polling"
    /\ Awaited
    /\ \E response \in LongPollResponses :
          Respond(response) /\ YieldsItem(lp_response(build, response))

\* The session with a server that answers every poll and does not answer
\* a waiting pull with item-less outcomes for ever: while a poll is in
\* flight AnswerWithItem stays enabled, so its weak fairness also makes
\* every poll answered.  The consumer is under no obligation to pull.
FairSpec == Spec /\ WF_vars(AnswerWithItem)

\* The mutant of PeerTick: the two streams' generators assign to one
\* shared request.
PeerTickShared(response) ==
    /\ ~peer.done
    /\ lp_request(build, peer.request).ok
    /\ \E o \in {lp_response(build, response)} :
          IF IsRecoverable(o) \/ IsUpdates(o)
          THEN /\ peer' = [peer EXCEPT !.request = AssignTs(peer.request, OutcomeTs(o))]
               /\ request' = AssignTs(request, OutcomeTs(o))
          ELSE /\ peer' = [peer EXCEPT !.done = TRUE]
               /\ request' = request
    /\ UNCHANGED <<build, supplied, pc, updates, consumer, items, ended, polls, ticks,
                   trips, call>>

\* One tick of the second stream (lines 63-79 run by its own generator):
\* it polls with its own request over the shared client and assigns the
\* returned ts to its own request, or ends on an error.
PeerTick(response) ==
    /\ ~peer.done
    /\ lp_request(build, peer.request).ok
    /\ \E o \in {lp_response(build, response)} :
          IF IsRecoverable(o) \/ IsUpdates(o)
          THEN /\ peer' = [peer EXCEPT !.request = AssignTs(peer.request, OutcomeTs(o))]
               /\ request' = request
          ELSE /\ peer' = [peer EXCEPT !.done = TRUE]
               /\ request' = request
    /\ UNCHANGED <<build, supplied, pc, updates, consumer, items, ended, polls, ticks,
                   trips, call>>

\* The responses the second stream's polls are answered with: a transport
\* failure, Updates, a long-poll error with a replacement ts, a fatal one
PeerResponses ==
    {Response("failed", None, None, Bytes("none", "json", VNull))} \cup
    {Response("ok", None, Some(Hv("application/json")), Bytes("none", "json", doc)) :
        doc \in {VMap([ts |-> VStr("5"), updates |-> WireUpdates(<<"u1">>)]),
                 VMap([failed |-> VInt(1), ts |-> VStr("5")]),
                 VMap([failed |-> VInt(2)])}}

\* Two streams of one client, interleaved
SharedNext ==
    \/ Next
    \/ \E response \in PeerResponses : PeerTick(response)

SharedSpec == Init /\ [][SharedNext]_vars

(***************************************************************************)
(* PipelineSpec: one pure operation applied to one input.                  *)
(***************************************************************************)
(***************************************************************************)
(* structs.rs: List and its ToString / Serialize.                          *)
(***************************************************************************)
\* The longest List drawn
MaxListLen == 3

\* Item: ToString, for the integer and &str items of the tests
item_to_string(i) ==
    IF i.t = "str" THEN i.s
    ELSE IF i.n < 0 THEN "-" \o u64_to_string(-i.n) ELSE u64_to_string(i.n)

\* Lines 39-42: the loop over the rest of the iterator
RECURSIVE push_rest(_, _)
push_rest(result, iter) ==
    IF iter = <<>> THEN result
    ELSE push_rest((result \o ",") \o item_to_string(Head(iter)), Tail(iter))

\* The mutant of List_to_string: every item is followed by a comma.
List_to_string_trailing(l) ==
    IF l = <<>> THEN "" ELSE push_rest(item_to_string(Head(l)), Tail(l)) \o ","

\* impl ToString for List (lines 31-44)
List_to_string(l) ==
    IF l = <<>> THEN "" ELSE push_rest(item_to_string(Head(l)), Tail(l))

\* impl Serialize for List: serializer.serialize_str(&self.to_string())
List_serialize(l) == VStr(List_to_string(l))

\* The items and the lists drawn: Vec<i32> and Vec<&str>
IntItems == {VInt(n) : n \in {1, 2, 3, 10, -5}}
StrItems == {VStr(s) : s \in {"id", "sex", "age", ""}}
SeqsUpTo(S, n) == UNION {[1..k -> S] : k \in 0..n}
Lists == SeqsUpTo(IntItems, MaxListLen) \cup SeqsUpTo(StrItems, MaxListLen)

\* struct Version(u8, u16) and its to_string
Version(major, minor) == [major |-> major, minor |-> minor]
version_to_string(v) == u64_to_string(v.major) \o "." \o u64_to_string(v.minor)

\* impl Default for Version
Version_default == Version(5, 131)

\* VkApiBuilder::new: both cfg_if chains test cfg(features = ...)
VkApiBuilder_new(b, access_token) ==
    VkApiInner(IF cfg_features(b, "compression_zstd") THEN "Zstd"
               ELSE IF cfg_features(b, "compression_gzip") THEN "Gzip"
               ELSE "None",
               IF cfg_features(b, "encode_msgpack") THEN "Msgpack"
               ELSE IF cfg_features(b, "encode_json") THEN "Json"
               ELSE "None",
               access_token, Version_default, "api.vk.com")

\* VkApiBuilder::with_compression / with_encoding, applied when given
with_compression(inner, compression) ==
    IF compression.tag = "Some" THEN [inner EXCEPT !.encoding = compression.val] ELSE inner
with_encoding(inner, encoding) ==
    IF encoding.tag = "Some" THEN [inner EXCEPT !.format = encoding.val] ELSE inner

Profiles(b) ==
    {VkApiInner(c, f, "token", Version(5, 131), "api.vk.com") :
        c \in Compressions(b), f \in Encodings(b)}

\* The caller's response type T and its parameters
ResponseTypes == {"u64", "Option<u64>"}
Bodies == {"user_ids=1", "nested"}

VkErrorDoc(code, msg) == VMap([error_code |-> VInt(code), error_msg |-> VStr(msg)])

\* The documents the API server answers with
ApiDocs ==
    {VMap([response |-> VInt(7)]),
     VMap([response |-> VStr("x")]),
     VMap([error |-> VkErrorDoc(5, "access denied")]),
     VMap([error |-> VkErrorDoc(40000, "too big")]),
     VMap([response |-> VInt(7), error |-> VkErrorDoc(5, "access denied")]),
     VMap(<<>>)}

ContentEncodings ==
    {None, Some(Hv("gzip")), Some(Hv("zstd")), Some(Hv("identity")), Some(Hv("br")),
     Some(Hv("GZIP"))}

ContentTypes ==
    {None, Some(Hv("application/json")), Some(Hv("application/json; charset=utf-8")),
     Some(Hv("application/x-msgpack")), Some(Hv("text/html")),
     Some(HvOpaque("application/json\\xff"))}

ApiResponses ==
    {Response("failed", None, None, Bytes("none", "json", VNull))} \cup
    {Response("ok", ce, ct, Bytes(comp, fmt, doc)) :
        ce \in ContentEncodings, ct \in ContentTypes,
        comp \in {"none", "gzip", "zstd"}, fmt \in {"json", "msgpack"},
        doc \in ApiDocs}

\* The values a `ts` field arrives as
TsValues ==
    {VInt(n) : n \in 0..MaxTs} \cup {VInt(123), VInt(-1), VNull}
    \cup {VStr(u64_to_string(n)) : n \in 0..MaxTs}
    \cup {VStr("123"), VStr("007"), VStr(""), VStr("abc")}
TsDocs == {VMap([ts |-> v]) : v \in TsValues} \cup {VMap(<<>>)}

\* VkApi::send_request_with_version by a client with profile `inner`
ApiCall(inner, T, body, response) ==
    /\ call = NoCall
    /\ call' = [op |-> "send_request", inner |-> inner, T |-> T, body |-> body,
                response |-> response,
                arm |-> decode_arm(build, response.content_type),
                out |-> send_request_with_version(build, inner, "users.get", body,
                                                  inner.version, T, response)]
    /\ UNCHANGED <<build, sessionVars>>

\* serde_json::from_str::<Ts> and ::<TsOpt> on one document
TsDecode(doc) ==
    /\ call = NoCall
    /\ call' = [op |-> "ts", doc |-> doc, ts |-> De_Ts(doc), opt |-> De_TsOpt(doc)]
    /\ UNCHANGED <<build, sessionVars>>

PipelineInit ==
    /\ build \in Builds
    /\ supplied = LongPollRequest("lp.vk.com/wh1", "k", "4", 25, "unit")
    /\ request = supplied
    /\ pc = "Start"
    /\ updates = <<>>
    /\ consumer = "idle"
    /\ items = <<>>
    /\ ended = FALSE
    /\ polls = <<>>
    /\ ticks = <<>>
    /\ trips = 0
    /\ peer = PeerStart
    /\ call = NoCall

\* A plain API call whose parameters flatten
CallFlat ==
    /\ call = NoCall
    /\ \E inner \in Profiles(build), T \in ResponseTypes, response \in ApiResponses :
          ApiCall(inner, T, "user_ids=1", response)

\* A plain API call whose parameters do not flatten: nothing is sent, so
\* there is no response to draw.
CallNested ==
    /\ call = NoCall
    /\ \E inner \in Profiles(build), T \in ResponseTypes :
          ApiCall(inner, T, "nested", Response("failed", None, None, Bytes("none", "json", VNull)))

DecodeTs ==
    /\ call = NoCall
    /\ \E doc \in TsDocs : TsDecode(doc)

\* VkApi::from(VkApiBuilder::new(token) [.with_compression(c)] [.with_encoding(f)])
BuildClient ==
    /\ call = NoCall
    /\ \E c \in {None} \cup {Some(x) : x \in Compressions(build)},
          f \in {None} \cup {Some(x) : x \in Encodings(build)} :
          call' = [op |-> "build", compression |-> c, encoding |-> f,
                   inner |-> with_encoding(with_compression(VkApiBuilder_new(build, "token"), c), f)]
    /\ UNCHANGED <<build, sessionVars>>

\* List(l).to_string() and the serialization of List(l)
ListToString ==
    /\ call = NoCall
    /\ \E l \in Lists :
          call' = [op |-> "list", list |-> l, string |-> List_to_string(l),
                   serialized |-> List_serialize(l)]
    /\ UNCHANGED <<build, sessionVars>>

\* VkLongPoll::subscribe_once_with_client: one tick on its own
Tick ==
    /\ call = NoCall
    /\ \E req \in Requests, response \in LongPollResponses :
          call' = [op |-> "tick", request |-> req, response |-> response,
                   sent |-> lp_request(build, req),
                   arm |-> decode_arm(build, response.content_type),
                   out |-> subscribe_once_with_client(build, req, response)]
    /\ UNCHANGED <<build, sessionVars>>

PipelineNext ==
    \/ CallFlat
    \/ CallNested
    \/ DecodeTs
    \/ BuildClient
    \/ ListToString
    \/ Tick

PipelineSpec == PipelineInit /\ [][PipelineNext]_vars

(***************************************************************************)
(* The claims about a subscribe() session, checked under Spec.             *)
(***************************************************************************)
\* The updates of the Updates outcomes among tks, concatenated in order
RECURSIVE UpdatesOf(_)
UpdatesOf(tks) ==
    IF tks = <<>> THEN <<>>
    ELSE (IF Head(tks).ok THEN Head(tks).val.updates ELSE <<>>) \o UpdatesOf(Tail(tks))

\* The values of the Ok items among its, in order
RECURSIVE OkValues(_)
OkValues(its) ==
    IF its = <<>> THEN <<>>
    ELSE (IF Head(its).ok THEN <<Head(its).val>> ELSE <<>>) \o OkValues(Tail(its))

\* A long-poll error that carries a replacement ts
CarriesTs(o) == ~o.ok /\ o.err.kind = "LongPoll" /\ o.err.error.ts.tag = "Some"
\* Neither Updates nor a long-poll error with a replacement ts
Terminal(o) == ~o.ok /\ ~CarriesTs(o)

\* C1: the Ok items yielded so far, followed by the updates the current
\* tick still holds, are the concatenation in tick order of the update
\* lists of the Updates outcomes, each in the order the server returned it;
\* outside the for loop nothing is held back.
C1_ItemsAreTheUpdatesInOrder ==
    /\ OkValues(items) \o updates = UpdatesOf(ticks)
    /\ pc # "Yielded" => updates = <<>>

C1_Witness ==
    /\ pc = "Polling"
    /\ Len(ticks) = 2
    /\ ticks[1].ok /\ ticks[1].val.updates = <<"u2", "u1">>
    /\ ticks[2].ok /\ ticks[2].val.updates = <<"u1">>
    /\ Len(items) = 3

\* C2: a tick that ends in a long-poll error with a replacement ts puts
\* that ts into request.ts, yields nothing (no item, no end of stream) and
\* the next poll, carrying the new ts, is handed to the transport.
C2_RecoverableIsConsumed ==
    [][(Len(ticks') > Len(ticks) /\ CarriesTs(ticks'[Len(ticks) + 1]))
        => /\ request'.ts = ticks'[Len(ticks) + 1].err.error.ts.val
           /\ items' = items
           /\ ended' = ended
           /\ Len(polls') = Len(polls) + 1
           /\ polls'[Len(polls')].query.ts = request'.ts
           /\ pc' = "Polling"]_vars

C2_Witness ==
    /\ Len(ticks) = 1
    /\ CarriesTs(ticks[1])
    /\ ticks[1].err.error.ts.val = "6"
    /\ request.ts = "6"
    /\ items = <<>>
    /\ Len(polls) = 2
    /\ pc = "Polling"

\* C3: a tick outcome that is neither Updates nor a long-poll error with a
\* replacement ts is yielded as one Err item holding that very error, with
\* no poll issued; from then on no item is yielded, no poll is issued and
\* no tick runs.
C3_FatalEndsTheStream ==
    [][/\ (Len(ticks') > Len(ticks) /\ Terminal(ticks'[Len(ticks')]))
            => /\ items' = Append(items, Err(ticks'[Len(ticks')].err))
               /\ polls' = polls
               /\ Len(ticks') = Len(ticks) + 1
       /\ (ticks # <<>> /\ Terminal(ticks[Len(ticks)]))
            => /\ items' = items
               /\ polls' = polls
               /\ ticks' = ticks]_vars

C3_Witness ==
    /\ ended
    /\ pc = "Done"
    /\ Len(ticks) = 3
    /\ ticks[3] = Err(ErrLongPoll([failed |-> 2, ts |-> None, min_version |-> None,
                                   max_version |-> None]))
    /\ items = <<Ok("u2"), Ok("u1"), ticks[3]>>

\* C4: the first poll carries the caller's ts, and poll n+1 carries the ts
\* that the outcome of poll n returned.
C4_PollCarriesLastReturnedTs ==
    \A n \in 1..Len(polls) :
        IF n = 1 THEN polls[n].query.ts = supplied.ts
        ELSE /\ n - 1 <= Len(ticks)
             /\ ~Terminal(ticks[n - 1])
             /\ polls[n].query.ts =
                   (IF ticks[n - 1].ok THEN ticks[n - 1].val.ts
                    ELSE ticks[n - 1].err.error.ts.val)

C4_Witness ==
    /\ Len(polls) = 3
    /\ supplied.ts = "4"
    /\ CarriesTs(ticks[1]) /\ polls[2].query.ts = "6"
    /\ ticks[2].ok /\ polls[3].query.ts = "5"

\* C5: a poll is handed to the transport only in a step of a live
\* consumer's next(), which leaves that next() pending on the poll; once
\* the stream is dropped no poll is issued and the stream stays dropped.
C5_PollsOnlyUnderAPull ==
    [][/\ polls' # polls => (consumer # "gone" /\ consumer' = "pulling")
       /\ consumer = "gone" => (polls' = polls /\ consumer' = "gone")
       /\ (pc = "Start" /\ polls' # polls) => (consumer = "idle" /\ polls = <<>>)]_vars

C5_Witness ==
    /\ consumer = "gone"
    /\ pc = "Polling"
    /\ Len(polls) = 2
    /\ Len(items) = 1

(***************************************************************************)
(* The claims about the decode pipeline and the ts deserializers, checked  *)
(* under PipelineSpec.                                                     *)
(***************************************************************************)
\* A plain API call that reached the transport and got a response
Answered == call.op = "send_request" /\ call.out.sent.tag = "Some" /\ call.response.transport = "ok"

\* The text of the response's Content-Type starts with p
ContentTypeStarts(p) ==
    /\ call.response.content_type.tag = "Some"
    /\ call.response.content_type.val.ascii
    /\ Len(call.response.content_type.val.bytes) >= Len(p)
    /\ SubSeq(call.response.content_type.val.bytes, 1, Len(p)) = p

\* The response's Content-Encoding is exactly s
ContentEncodingIs(s) ==
    /\ call.response.content_encoding.tag = "Some"
    /\ call.response.content_encoding.val = [bytes |-> s, ascii |-> TRUE]

\* C6: the result of a call is the same whatever profile the client was
\* built with; a client configured for JSON and no compression that gets
\* Content-Type application/x-msgpack and Content-Encoding gzip decodes the
\* body as gzip-compressed MessagePack.
C6_HeadersAloneSelectTheCodecs ==
    Answered =>
        /\ \A p \in Profiles(build) :
              api_response(build, p, call.T, call.response) = call.out.result
        /\ (/\ call.inner.format = "Json" /\ call.inner.encoding = "None"
            /\ {"encode_msgpack", "compression_gzip"} \subseteq build
            /\ ContentTypeStarts("application/x-msgpack")
            /\ ContentEncodingIs("gzip")
            /\ call.T = "u64")
           => IF call.response.body.comp = "gzip" /\ call.response.body.fmt = "msgpack"
              THEN call.response.body.doc = VMap([response |-> VInt(7)])
                      => call.out.result = Ok(7)
              ELSE call.out.result = Err(ErrResponseDeserialize("MsgPack"))

C6_Witness ==
    /\ Answered
    /\ call.inner.format = "Json" /\ call.inner.encoding = "None"
    /\ ContentTypeStarts("application/x-msgpack")
    /\ ContentEncodingIs("gzip")
    /\ call.response.body = Bytes("gzip", "msgpack", VMap([response |-> VInt(7)]))
    /\ call.out.result = Ok(7)

\* C7 as claimed: an absent, non-text or unrecognized Content-Type fails
\* with BadEncoding and runs no parser, and a Content-Type starting with
\* application/json or application/x-msgpack selects that parser and never
\* yields BadEncoding.
C7_AsClaimed ==
    Answered =>
        /\ (~ContentTypeStarts("application/json") /\ ~ContentTypeStarts("application/x-msgpack"))
              => (call.arm = "BadEncoding" /\ call.out.result = Err(BadEncoding))
        /\ ContentTypeStarts("application/json")
              => (call.arm = "Json" /\ call.out.result # Err(BadEncoding))
        /\ ContentTypeStarts("application/x-msgpack")
              => (call.arm = "MsgPack" /\ call.out.result # Err(BadEncoding))

\* C7 amended: the same, except that a recognized prefix selects its parser
\* only in a build holding that format's feature (encode_json,
\* encode_msgpack); in a build without it the call fails with BadEncoding
\* and runs no parser.
C7_BadEncodingUnlessCompiledPrefix ==
    Answered =>
        /\ (~ContentTypeStarts("application/json") /\ ~ContentTypeStarts("application/x-msgpack"))
              => (call.arm = "BadEncoding" /\ call.out.result = Err(BadEncoding))
        /\ ContentTypeStarts("application/json") =>
              IF "encode_json" \in build
              THEN call.arm = "Json" /\ call.out.result # Err(BadEncoding)
              ELSE call.arm = "BadEncoding" /\ call.out.result = Err(BadEncoding)
        /\ ContentTypeStarts("application/x-msgpack") =>
              IF "encode_msgpack" \in build
              THEN call.arm = "MsgPack" /\ call.out.result # Err(BadEncoding)
              ELSE call.arm = "BadEncoding" /\ call.out.result = Err(BadEncoding)

C7_Witness ==
    /\ Answered
    /\ build = Features
    /\ call.response.content_type = Some(Hv("text/html"))
    /\ call.response.body = Bytes("none", "json", VMap([response |-> VInt(7)]))
    /\ call.out.result = Err(BadEncoding)

\* C8: when Content-Encoding is absent or anything but exactly "zstd" or
\* "gzip", uncompress returns the passthrough reader, which delivers the
\* body as it is, and the call's result is that of the same response
\* without the header, whatever compression the client asked for.
C8_OtherEncodingsPassThrough ==
    (Answered /\ ~ContentEncodingIs("zstd") /\ ~ContentEncodingIs("gzip")) =>
        /\ uncompress(build, call.response.content_encoding, call.response.body)
              = Ok(CompressReader("Skip", call.response.body))
        /\ Read(CompressReader("Skip", call.response.body)) = Ok(call.response.body)
        /\ call.out.result =
              api_response(build, call.inner, call.T,
                           [call.response EXCEPT !.content_encoding = None])

C8_Witness ==
    /\ Answered
    /\ call.inner.encoding = "Zstd"
    /\ ContentEncodingIs("identity")
    /\ call.response.content_type = Some(Hv("application/json"))
    /\ call.response.body = Bytes("none", "json", VMap([response |-> VInt(7)]))
    /\ call.T = "u64"
    /\ call.out.result = Ok(7)

\* The call's parser was handed the document of the body
Parsed ==
    /\ Answered
    /\ call.response.content_encoding = None
    /\ call.response.body.comp = "none"
    /\ \/ call.arm = "Json" /\ call.response.body.fmt = "json"
       \/ call.arm = "MsgPack" /\ call.response.body.fmt = "msgpack"

\* C9 as claimed: a parsed body holding only an `error` object with an
\* i16 error_code and an error_msg returns Err(VkApiError::Vk) with that
\* code and message, and a parsed body holding only a `response` of the
\* caller's type returns Ok of that value.
C9_AsClaimed ==
    Parsed =>
        /\ (/\ DOMAIN call.response.body.doc.m = {"error"}
            /\ call.response.body.doc.m.error.m.error_code.n \in I16Min..I16Max)
              => call.out.result =
                    Err(ErrVk([error_code |-> call.response.body.doc.m.error.m.error_code.n,
                               error_msg |-> call.response.body.doc.m.error.m.error_msg.s]))
        /\ (/\ DOMAIN call.response.body.doc.m = {"response"}
            /\ call.response.body.doc.m.response.t = "int")
              => call.out.result =
                    (IF call.T = "u64" THEN Ok(call.response.body.doc.m.response.n)
                     ELSE Ok(Some(call.response.body.doc.m.response.n)))

\* The digit a one-character string stands for
DigitOf(c) == CHOOSE d \in 0..9 : SubSeq("0123456789", d + 1, d + 1) = c
IsDigit(c) == \E d \in 0..9 : SubSeq("0123456789", d + 1, d + 1) = c

\* The number a string of decimal digits denotes
RECURSIVE DecimalValue(_)
DecimalValue(s) ==
    IF Len(s) = 0 THEN 0
    ELSE 10 * DecimalValue(SubSeq(s, 1, Len(s) - 1)) + DigitOf(SubSeq(s, Len(s), Len(s)))

\* s is the string of n's decimal digits
IsDecimalOf(s, n) ==
    /\ Len(s) >= 1
    /\ \A i \in 1..Len(s) : IsDigit(SubSeq(s, i, i))
    /\ Len(s) > 1 => SubSeq(s, 1, 1) # "0"
    /\ DecimalValue(s) = n

\* C10: an integer ts n >= 0 decodes to the string of n's decimal digits,
\* and that string, sent as a string ts, decodes to itself; a string ts is
\* kept as it is; the optional variant gives Some of the same string, and
\* None when ts is absent.
C10_TsIsOneStringForm ==
    call.op = "ts" =>
        /\ (Has(call.doc, "ts") /\ call.doc.m.ts.t = "int" /\ call.doc.m.ts.n >= 0) =>
              /\ call.ts.ok
              /\ IsDecimalOf(call.ts.val, call.doc.m.ts.n)
              /\ De_Ts(VMap([ts |-> VStr(call.ts.val)])) = call.ts
              /\ call.opt = Ok(Some(call.ts.val))
        /\ (Has(call.doc, "ts") /\ call.doc.m.ts.t = "str") =>
              /\ call.ts = Ok(call.doc.m.ts.s)
              /\ call.opt = Ok(Some(call.doc.m.ts.s))
        /\ ~Has(call.doc, "ts") => call.opt = Ok(None)

C10_Witness ==
    /\ call.op = "ts"
    /\ call.doc = VMap([ts |-> VInt(123)])
    /\ call.ts = Ok("123")
    /\ call.opt = Ok(Some("123"))

\* C11: the Accept-Encoding, the Accept and the URL of a plain API call
\* follow the configured profile alone: zstd / gzip / identity for
\* compression Zstd / Gzip / None, application/x-msgpack / application/json
\* / text/* for format Msgpack / Json / None, and the .msgpack suffix on
\* the method URL exactly for format Msgpack, whatever the response holds.
C11_NegotiationFollowsTheProfile ==
    (call.op = "send_request" /\ call.out.sent.tag = "Some") =>
        /\ call.inner.encoding = "Zstd" => call.out.sent.val.accept_encoding = "zstd"
        /\ call.inner.encoding = "Gzip" => call.out.sent.val.accept_encoding = "gzip"
        /\ call.inner.encoding = "None" => call.out.sent.val.accept_encoding = "identity"
        /\ call.inner.format = "Msgpack" => call.out.sent.val.accept = "application/x-msgpack"
        /\ call.inner.format = "Json" => call.out.sent.val.accept = "application/json"
        /\ call.inner.format = "None" => call.out.sent.val.accept = "text/*"
        /\ call.inner.encoding \in {"Zstd", "Gzip", "None"}
        /\ call.inner.format \in {"Msgpack", "Json", "None"}
        /\ call.out.sent.val.url =
              (IF call.inner.format = "Msgpack"
               THEN "https://api.vk.com/method/users.get.msgpack"
               ELSE "https://api.vk.com/method/users.get")

C11_Witness ==
    /\ call.op = "send_request"
    /\ call.inner.format = "Msgpack" /\ call.inner.encoding = "Zstd"
    /\ call.response.transport = "ok"
    /\ call.response.content_type = Some(Hv("application/json"))
    /\ call.response.content_encoding = Some(Hv("gzip"))
    /\ call.out.sent = Some([url |-> "https://api.vk.com/method/users.get.msgpack",
                             accept_encoding |-> "zstd",
                             accept |-> "application/x-msgpack",
                             content_type |-> "application/x-www-form-urlencoded",
                             form |-> [v |-> Version(5, 131), access_token |-> "token",
                                       body |-> "user_ids=1"]])

\* C12 as claimed: a client built without with_compression and
\* with_encoding has compression Zstd when zstd is compiled in, else Gzip
\* when gzip is, else None; format Msgpack when msgpack is compiled in,
\* else Json when JSON is, else None; version 5.131 and domain api.vk.com.
C12_AsClaimed ==
    (call.op = "build" /\ call.compression = None /\ call.encoding = None) =>
        /\ call.inner.encoding =
              (IF "compression_zstd" \in build THEN "Zstd"
               ELSE IF "compression_gzip" \in build THEN "Gzip" ELSE "None")
        /\ call.inner.format =
              (IF "encode_msgpack" \in build THEN "Msgpack"
               ELSE IF "encode_json" \in build THEN "Json" ELSE "None")
        /\ call.inner.version = Version(5, 131)
        /\ call.inner.domain = "api.vk.com"

\* The number of commas in s
CountCommas(s) == Cardinality({i \in 1..Len(s) : SubSeq(s, i, i) = ","})

\* Where the k-th item starts in a string that joins the items of l with
\* one separator character between neighbours (0-based offset)
RECURSIVE OffsetOf(_, _)
OffsetOf(l, k) ==
    IF k = 1 THEN 0 ELSE OffsetOf(l, k - 1) + Len(item_to_string(l[k - 1])) + 1

\* C13: List::to_string is the items' strings in order with one comma
\* between neighbours and none before the first or after the last: "" for
\* no item, the item's string for one item, n-1 commas for n items; and
\* List serializes as that string.
C13_ListJoinsWithCommas ==
    call.op = "list" =>
        /\ call.list = <<>> => call.string = ""
        /\ Len(call.list) = 1 => call.string = item_to_string(call.list[1])
        /\ Len(call.list) >= 1 =>
              /\ CountCommas(call.string) = Len(call.list) - 1
              /\ Len(call.string) =
                    OffsetOf(call.list, Len(call.list))
                       + Len(item_to_string(call.list[Len(call.list)]))
              /\ \A k \in 1..Len(call.list) :
                    SubSeq(call.string, OffsetOf(call.list, k) + 1,
                           OffsetOf(call.list, k) + Len(item_to_string(call.list[k])))
                       = item_to_string(call.list[k])
        /\ call.list = <<VInt(1), VInt(2), VInt(3)>> => call.string = "1,2,3"
        /\ call.list = <<VStr("id"), VStr("sex"), VStr("age")>> => call.string = "id,sex,age"
        /\ call.serialized = VStr(call.string)

C13_Witness ==
    /\ call.op = "list"
    /\ call.list = <<VStr("id"), VStr("sex"), VStr("age")>>
    /\ call.string = "id,sex,age"
    /\ call.serialized = VStr("id,sex,age")

\* The outcomes that came back from the transport (a tick that failed
\* while building its request never reached it)
RECURSIVE Answers(_)
Answers(tks) ==
    IF tks = <<>> THEN 0
    ELSE Answers(SubSeq(tks, 1, Len(tks) - 1))
         + (IF ~Last(tks).ok /\ Last(tks).err.kind \in {"RequestSerialize", "Http"}
            THEN 0 ELSE 1)

\* C14: at most one poll is in flight: the polls issued are the polls
\* answered plus the one being awaited, and a new poll is issued only when
\* every earlier poll has its outcome and every update of those outcomes
\* has been handed to the consumer.
C14_OnePollInFlight ==
    [][ /\ Len(polls') = Answers(ticks') + (IF pc' = "Polling" THEN 1 ELSE 0)
        /\ polls' # polls =>
              /\ Len(polls') = Len(polls) + 1
              /\ SubSeq(polls', 1, Len(polls)) = polls
              /\ pc' = "Polling"
              /\ Answers(ticks') = Len(polls)
              /\ updates' = <<>>
              /\ OkValues(items') = UpdatesOf(ticks') ]_vars

C14_Witness ==
    /\ pc = "Polling"
    /\ Len(polls) = 2
    /\ Len(ticks) = 1
    /\ ticks[1].ok /\ ticks[1].val.updates = <<"u2", "u1">>
    /\ items = <<Ok("u2"), Ok("u1")>>
    /\ updates = <<>>

\* An outcome that yields no item: a long-poll error with a replacement
\* ts, or Updates with an empty list
Silent(o) == CarriesTs(o) \/ (o.ok /\ o.val.updates = <<>>)

\* The number of silent outcomes at the end of tks
RECURSIVE SilentSuffix(_)
SilentSuffix(tks) ==
    IF tks = <<>> \/ ~Silent(Last(tks)) THEN 0
    ELSE 1 + SilentSuffix(SubSeq(tks, 1, Len(tks) - 1))

TickParsed ==
    /\ call.op = "tick"
    /\ call.sent.ok
    /\ call.response.transport = "ok"
    /\ call.response.content_encoding = None
    /\ call.response.body.comp = "none"
    /\ \/ call.arm = "Json" /\ call.response.body.fmt = "json"
       \/ call.arm = "MsgPack" /\ call.response.body.fmt = "msgpack"

\* C16 as claimed: a parsed success payload (ts and updates) is the
\* Updates outcome with the decimal string of ts and the updates in order,
\* whether ts arrives as an integer or as a string.
C16_AsClaimed ==
    (TickParsed /\ DOMAIN call.response.body.doc.m = {"ts", "updates"}) =>
        /\ call.out.ok
        /\ call.out.val.updates =
              [i \in 1..Len(call.response.body.doc.m.updates.q) |->
                  call.response.body.doc.m.updates.q[i].s]
        /\ call.response.body.doc.m.ts.t = "int" =>
              IsDecimalOf(call.out.val.ts, call.response.body.doc.m.ts.n)
        /\ call.response.body.doc.m.ts.t = "str" =>
              call.out.val.ts = call.response.body.doc.m.ts.s

\* C17 as claimed: a parsed plain API body with both `response` and
\* `error`, or with neither, and a parsed long-poll body with `ts`,
\* `updates` and `failed`, or with neither shape's fields, is a decode
\* error.
C17_AsClaimed ==
    /\ (/\ Parsed
        /\ \/ {"response", "error"} \subseteq DOMAIN call.response.body.doc.m
           \/ {"response", "error"} \cap DOMAIN call.response.body.doc.m = {})
          => (~call.out.result.ok /\ call.out.result.err.kind = "ResponseDeserialize")
    /\ (/\ TickParsed
        /\ \/ {"ts", "updates", "failed"} \subseteq DOMAIN call.response.body.doc.m
           \/ {"ts", "updates", "failed"} \cap DOMAIN call.response.body.doc.m = {})
          => (~call.out.ok /\ call.out.err.kind = "ResponseDeserialize")

\* C18 as claimed: every poll of a session carries Accept-Encoding gzip
\* when gzip is compiled in and identity otherwise, and Accept
\* application/json when JSON is compiled in and text/* otherwise.
C18_AsClaimed ==
    \A i \in 1..Len(polls) :
        /\ polls[i].accept_encoding =
              (IF "compression_gzip" \in build THEN "gzip" ELSE "identity")
        /\ polls[i].accept =
              (IF "encode_json" \in build THEN "application/json" ELSE "text/*")

\* The server string names its scheme
HasScheme(server) == starts_with(server, "http://") \/ starts_with(server, "https://")

\* C19 as claimed: the URL of a tick whose parameters flatten is the
\* server string as it is when it has a scheme and "https://" followed by
\* the server string when it has none, and its query carries key, ts, wait
\* and the flattened extra parameters.
C19_AsClaimed ==
    (call.op = "tick" /\ call.request.additional_params # "nested") =>
        /\ call.sent.ok
        /\ starts_with(call.sent.val.uri,
                       (IF HasScheme(call.request.server) THEN call.request.server
                        ELSE "https://" \o call.request.server) \o "?")
        /\ call.sent.val.query =
              [key |-> call.request.key, ts |-> call.request.ts, wait |-> call.request.wait,
               additional_params |-> call.request.additional_params]

\* C20 as claimed: a plain API call and a long-poll tick whose parameters
\* do not flatten fail with RequestSerialize, and nothing is sent.
C20_AsClaimed ==
    /\ (call.op = "send_request" /\ call.body = "nested") =>
          (call.out.sent = None /\ call.out.result = Err(ErrRequestSerialize))
    /\ (call.op = "tick" /\ call.request.additional_params = "nested") =>
          (~call.sent.ok /\ call.out = Err(ErrRequestSerialize))

\* C21: with a server that answers every poll and eventually answers with
\* an outcome that yields an item, a pending pull eventually returns (or
\* the stream is dropped); and the stream is at its error or at its end
\* only when the last outcome is neither Updates nor a long-poll error
\* with a replacement ts.
C21_PendingPullReturns ==
    /\ [](((pc \in {"YieldedErr", "Done"}) \/ ended) =>
            (ticks # <<>> /\ Terminal(Last(ticks))))
    /\ (consumer = "pulling") ~> (consumer = "gone" \/ pc \in {"Yielded", "YieldedErr"})

C21_Witness ==
    /\ pc = "Yielded"
    /\ consumer = "idle"
    /\ Len(ticks) = 2
    /\ CarriesTs(ticks[1])
    /\ ticks[2].ok /\ ticks[2].val.updates = <<"u1">>
    /\ items = <<Ok("u1")>>
    /\ Len(polls) = 2

\* C22: in a session only request.ts changes: the server, key, wait and
\* extra parameters of the request and of every poll are the caller's; a
\* tick of another stream of the same client leaves this stream's request
\* and polls as they are, and a step of this stream leaves the other
\* stream's request as it is.
C22_OnlyTsChanges ==
    [][ /\ supplied' = supplied
        /\ request' = [supplied EXCEPT !.ts = request'.ts]
        /\ \A i \in 1..Len(polls') :
              /\ polls'[i].query.key = supplied.key
              /\ polls'[i].query.wait = supplied.wait
              /\ polls'[i].query.additional_params = supplied.additional_params
              /\ starts_with(polls'[i].uri,
                             (IF starts_with(supplied.server, "http") THEN supplied.server
                              ELSE "https://" \o supplied.server) \o "?act=a_check&")
        /\ peer' # peer => (request' = request /\ polls' = polls /\ ticks' = ticks)
        /\ (request' # request \/ ticks' # ticks) => peer' = peer
        /\ peer'.request = [PeerStart.request EXCEPT !.ts = peer'.request.ts] ]_vars

C22_Witness ==
    /\ request.ts = "6"
    /\ peer.request.ts = "5"
    /\ supplied.server = "lp.vk.com/wh1"
    /\ supplied.additional_params = "mode=2"
    /\ Len(polls) = 2
    /\ polls[2].query = [key |-> "k", ts |-> "6", wait |-> 25, additional_params |-> "mode=2"]
    /\ polls[2].uri = "https://lp.vk.com/wh1?act=a_check&key=k&ts=6&wait=25&mode=2"

====
